---- MODULE Spec2Model ----
(***************************************************************************)
(* Model of src/onnx_model_tester.py: the command-line entry point main(), *)
(* the probe sequence of ONNXModelTester.run_comprehensive_test, the       *)
(* result store self.test_results, and the scoring engine                  *)
(* generate_deployment_report.                                             *)
(*                                                                         *)
(* Numbers the code keeps as floats are kept as exact fractions            *)
(* [n |-> numerator, d |-> denominator] and compared by cross              *)
(* multiplication; float('inf') is the fraction 1/0.                       *)
(***************************************************************************)
EXTENDS Integers, Sequences, FiniteSets, TLC

VARIABLES
    pc,            \* position of the main thread
    session,       \* self.session: "None" until _load_model has set it
    args,          \* what main() hands to run_comprehensive_test
    test_results,  \* self.test_results: insertion-ordered dict, a sequence of [k, v]
    call_log,      \* the probes run_comprehensive_test has called, in call order
    exc,           \* the function an uncaught exception came out of, or "none"
    report,        \* the dict generate_deployment_report returned, or NoReport
    saved,         \* TRUE once save_report has written the report artifact
    exit_code,     \* the process exit status, or Running
    call,          \* <<arguments>> of the method a caller invokes directly, else <<>>
    ret,           \* <<value>> that method returned, <<>> before it returns
    cpu_readings,  \* the list the CPU sampler thread of a test script appends to
    monitor_thread \* that thread: "none", "running" or "finished"

vars == <<pc, session, args, test_results, call_log, exc, report, saved, exit_code,
         call, ret, cpu_readings, monitor_thread>>

----------------------------------------------------------------------------
(* Bounds of the model *)

\* number of rows of a training-data or edge-case CSV file
MaxRows == 2

\* number of rows behind the rates the scoring specification enumerates:
\* RateSteps edge cases, half as many training rows
RateSteps == 20

----------------------------------------------------------------------------
(* Values stored in self.test_results *)

Val(kind, n, d) == [kind |-> kind, n |-> n, d |-> d]

\* what dict.get(key, {}) yields for a key that is not in the dict
Absent == Val("absent", 0, 1)
\* {'error': str(e)}
ErrorResult == Val("error", 0, 1)
\* a results dict without a metric the scorer reads
PlainResult == Val("results", 0, 1)
\* the variants test_input_validation runs (six in either branch)
NumValidationTests == 6

Frac(n, d) == [n |-> n, d |-> d]
Infinity == Frac(1, 0)
FracGE(a, b) == a.n * b.d >= b.n * a.d
FracLT(a, b) == a.n * b.d < b.n * a.d

----------------------------------------------------------------------------
(* Python dict operations on the insertion-ordered store *)

HasKey(dict, key) == \E i \in 1..Len(dict) : dict[i].k = key

DictGet(dict, key, default) ==
    IF HasKey(dict, key)
    THEN (CHOOSE e \in {dict[i] : i \in 1..Len(dict)} : e.k = key).v
    ELSE default

DictSetFresh(dict, key, value) == <<[k |-> key, v |-> value]>>

DictSet(dict, key, value) ==
    IF HasKey(dict, key)
    THEN [i \in 1..Len(dict) |->
            IF dict[i].k = key THEN [k |-> key, v |-> value] ELSE dict[i]]
    ELSE Append(dict, [k |-> key, v |-> value])

Keys(dict) == [i \in 1..Len(dict) |-> dict[i].k]

----------------------------------------------------------------------------
(* generate_deployment_report: the five scoring rules *)

Award(pts, issues, recs) == [pts |-> pts, issues |-> issues, recs |-> recs]

\* input_val.get('pass_rate', 0)
PassRate(v) == IF v.kind = "results" THEN Frac(v.n, v.d) ELSE Frac(0, 1)

\* speed.get('avg_inference_time', float('inf'))
AvgInferenceTime(v) == IF v.kind = "results" THEN Frac(v.n, v.d) ELSE Infinity

\* the two metrics read with a default of 1 for a missing key
RateDefaultOne(v) == IF v.kind = "numerical" THEN Frac(v.n, v.d) ELSE Frac(1, 1)

\* train_perf.get('accuracy', 0) and edge_cases.get('success_rate', 0), read
\* only after the data_type == 'text' branch has been ruled out
Rate(v) == IF v.kind = "numerical" THEN Frac(v.n, v.d) ELSE Frac(0, 1)

\* the loading points given only to a model whose smoke tests found it stable
LoadingRuleStable(dict) ==
    LET smoke == DictGet(dict, "inference_smoke_tests", Absent) IN
    IF /\ DictGet(dict, "model_loading", Val("false", 0, 1)).kind = "true"
       /\ "stability_test" \in DOMAIN smoke => smoke.stability_test
    THEN Award(20, <<>>, <<>>)
    ELSE Award(0, <<"Model fails to load">>, <<>>)

LoadingRule(dict) ==
    IF DictGet(dict, "model_loading", Val("false", 0, 1)).kind = "true"
    THEN Award(20, <<>>, <<>>)
    ELSE Award(0, <<"Model fails to load">>, <<>>)

InputValidationRule(dict) ==
    LET input_val == DictGet(dict, "input_validation", Absent) IN
    IF FracGE(PassRate(input_val), Frac(8, 10))
    THEN Award(15, <<>>, <<>>)
    ELSE IF FracGE(PassRate(input_val), Frac(6, 10))
    THEN Award(10, <<>>, <<"Some input validation tests failed">>)
    ELSE Award(0, <<"Multiple input validation failures">>, <<>>)

PerformanceRule(dict) ==
    LET speed == DictGet(dict, "inference_speed", Absent) IN
    IF FracLT(AvgInferenceTime(speed), Frac(1, 10))
    THEN Award(15, <<>>, <<>>)
    ELSE IF FracLT(AvgInferenceTime(speed), Frac(5, 10))
    THEN Award(10, <<>>, <<>>)
    ELSE IF FracLT(AvgInferenceTime(speed), Frac(1, 1))
    THEN Award(5, <<>>, <<"Consider optimizing model for better performance">>)
    ELSE Award(0, <<"Model inference is too slow">>, <<>>)

\* the accuracy tiers with > in place of >=
TrainingRuleStrict(dict) ==
    LET train_perf == DictGet(dict, "training_data_performance", Absent) IN
    IF train_perf.kind = "text"
    THEN Award(10, <<>>,
               <<"Provide preprocessed numerical features for full performance validation">>)
    ELSE IF FracLT(Frac(9, 10), Rate(train_perf))
    THEN Award(20, <<>>, <<>>)
    ELSE IF FracLT(Frac(8, 10), Rate(train_perf))
    THEN Award(15, <<>>, <<>>)
    ELSE IF FracLT(Frac(7, 10), Rate(train_perf))
    THEN Award(10, <<>>, <<"Model accuracy could be improved">>)
    ELSE IF train_perf.kind = "error"
    THEN Award(0, <<>>, <<"Test with training data for performance validation">>)
    ELSE Award(0, <<"Model accuracy is below acceptable threshold">>, <<>>)

TrainingRule(dict) ==
    LET train_perf == DictGet(dict, "training_data_performance", Absent) IN
    IF train_perf.kind = "text"
    THEN Award(10, <<>>,
               <<"Provide preprocessed numerical features for full performance validation">>)
    ELSE IF FracGE(Rate(train_perf), Frac(9, 10))
    THEN Award(20, <<>>, <<>>)
    ELSE IF FracGE(Rate(train_perf), Frac(8, 10))
    THEN Award(15, <<>>, <<>>)
    ELSE IF FracGE(Rate(train_perf), Frac(7, 10))
    THEN Award(10, <<>>, <<"Model accuracy could be improved">>)
    ELSE IF train_perf.kind = "error"
    THEN Award(0, <<>>, <<"Test with training data for performance validation">>)
    ELSE Award(0, <<"Model accuracy is below acceptable threshold">>, <<>>)

EdgeCaseRuleSwapped(dict) ==
    LET edge_cases == DictGet(dict, "edge_cases", Absent) IN
    IF edge_cases.kind = "text"
    THEN Award(8, <<>>,
               <<"Provide preprocessed numerical features for edge case testing">>)
    ELSE IF FracGE(Rate(edge_cases), Frac(95, 100))
    THEN Award(15, <<>>, <<>>)
    ELSE IF FracGE(Rate(edge_cases), Frac(8, 10))
    THEN Award(5, <<>>, <<>>)
    ELSE IF FracGE(Rate(edge_cases), Frac(6, 10))
    THEN Award(10, <<>>, <<"Address edge case failures">>)
    ELSE IF edge_cases.kind = "error"
    THEN Award(0, <<>>, <<"Test with edge cases for robustness validation">>)
    ELSE Award(0, <<"Model fails on many edge cases">>, <<>>)

EdgeCaseRule(dict) ==
    LET edge_cases == DictGet(dict, "edge_cases", Absent) IN
    IF edge_cases.kind = "text"
    THEN Award(8, <<>>,
               <<"Provide preprocessed numerical features for edge case testing">>)
    ELSE IF FracGE(Rate(edge_cases), Frac(95, 100))
    THEN Award(15, <<>>, <<>>)
    ELSE IF FracGE(Rate(edge_cases), Frac(8, 10))
    THEN Award(10, <<>>, <<>>)
    ELSE IF FracGE(Rate(edge_cases), Frac(6, 10))
    THEN Award(5, <<>>, <<"Address edge case failures">>)
    ELSE IF edge_cases.kind = "error"
    THEN Award(0, <<>>, <<"Test with edge cases for robustness validation">>)
    ELSE Award(0, <<"Model fails on many edge cases">>, <<>>)

\* the rules in the order generate_deployment_report applies them
Awards(dict) ==
    << LoadingRule(dict), InputValidationRule(dict), PerformanceRule(dict),
       TrainingRule(dict), EdgeCaseRule(dict) >>

MaxPointsShort == <<20, 15, 15, 10, 15>>

\* max_score += 20, 15, 15, 20, 15
MaxPoints == <<20, 15, 15, 20, 15>>

RECURSIVE SumSeq(_)
SumSeq(s) == IF s = <<>> THEN 0 ELSE Head(s) + SumSeq(Tail(s))

RECURSIVE Flatten(_)
Flatten(ss) == IF ss = <<>> THEN <<>> ELSE Head(ss) \o Flatten(Tail(ss))

Points(awards) == SumSeq([i \in 1..Len(awards) |-> awards[i].pts])
Score(dict) == Points(Awards(dict))
MaxScore == SumSeq(MaxPoints)
Issues(awards) == Flatten([i \in 1..Len(awards) |-> awards[i].issues])
Recommendations(awards) == Flatten([i \in 1..Len(awards) |-> awards[i].recs])

\* the percentage taken of a nominal total of 100 points
PercentageOfHundred(score, max_score) == Frac(score * 100, 100)

\* percentage = (score / max_score) * 100
Percentage(score, max_score) == Frac(score * 100, max_score)

DeploymentStatus(percentage) ==
    IF FracGE(percentage, Frac(85, 1)) THEN "READY FOR DEPLOYMENT"
    ELSE IF FracGE(percentage, Frac(70, 1)) THEN "DEPLOYMENT WITH CAUTION"
    ELSE "NOT READY FOR DEPLOYMENT"

IsReadyLoose(percentage) == FracGE(percentage, Frac(80, 1))

\* 'is_ready': percentage >= 85
IsReady(percentage) == FracGE(percentage, Frac(85, 1))

Report(dict) ==
    LET awards == Awards(dict)
        score == Points(awards)
        percentage == Percentage(score, MaxScore)
    IN [ score |-> score,
         max_score |-> MaxScore,
         percentage |-> percentage,
         deployment_status |-> DeploymentStatus(percentage),
         is_ready |-> IsReady(percentage),
         issues |-> Issues(awards),
         recommendations |-> Recommendations(awards),
         test_results |-> dict ]

NoReport ==
    [ score |-> 0, max_score |-> 0, percentage |-> Frac(0, 1),
      deployment_status |-> "NO REPORT", is_ready |-> FALSE,
      issues |-> <<>>, recommendations |-> <<>>, test_results |-> <<>> ]

----------------------------------------------------------------------------
(* main() and run_comprehensive_test: positions and helpers *)

Running == -1

\* the call sites of run_comprehensive_test, in program order
ProbeSequenceSwapped ==
    << "test_structural_integrity", "test_io_information",
       "test_model_graph_architecture", "test_model_parameters",
       "extract_model_metadata", "test_model_loading", "test_input_validation",
       "test_inference_speed", "test_inference_smoke_tests",
       "test_performance_profiling", "test_compatibility",
       "test_with_training_data", "test_edge_cases",
       "test_with_llm_router_api", "test_with_llm_generated_text" >>

ProbeSequence ==
    << "test_structural_integrity", "test_io_information",
       "test_model_graph_architecture", "test_model_parameters",
       "extract_model_metadata", "test_model_loading", "test_inference_speed",
       "test_input_validation", "test_inference_smoke_tests",
       "test_performance_profiling", "test_compatibility",
       "test_with_training_data", "test_edge_cases",
       "test_with_llm_router_api", "test_with_llm_generated_text" >>

\* the key of self.test_results each probe writes its result under
ResultKey(name) ==
    CASE name = "test_structural_integrity" -> "structural_integrity"
      [] name = "test_io_information" -> "io_information"
      [] name = "test_model_graph_architecture" -> "model_graph"
      [] name = "test_model_parameters" -> "model_parameters"
      [] name = "extract_model_metadata" -> "model_metadata"
      [] name = "test_model_loading" -> "model_loading"
      [] name = "test_inference_speed" -> "inference_speed"
      [] name = "test_input_validation" -> "input_validation"
      [] name = "test_inference_smoke_tests" -> "inference_smoke_tests"
      [] name = "test_performance_profiling" -> "performance_profiling"
      [] name = "test_compatibility" -> "compatibility"
      [] name = "test_with_training_data" -> "training_data_performance"
      [] name = "test_edge_cases" -> "edge_cases"
      [] name = "test_with_llm_router_api" -> "llm_router_api"
      [] name = "test_with_llm_generated_text" -> "llm_generated_text"

ProbeNames == {ProbeSequence[i] : i \in 1..Len(ProbeSequence)}

IndexOf(seq, x) == CHOOSE i \in 1..Len(seq) : seq[i] = x

\* the statement that follows the call site of probe name
AfterProbe(name) ==
    LET i == IndexOf(ProbeSequence, name) IN
    IF i < Len(ProbeSequence) THEN ProbeSequence[i + 1]
    ELSE "generate_deployment_report"

NoArgs ==
    [ training_data_path |-> FALSE, edge_case_data_path |-> FALSE,
      api_endpoint |-> FALSE, use_llm_text |-> FALSE ]

ArgSets ==
    [ training_data_path : BOOLEAN, edge_case_data_path : BOOLEAN,
      api_endpoint : BOOLEAN, use_llm_text : BOOLEAN ]

\* average inference times in milliseconds the speed probe may measure
Latencies == {50, 100, 500, 1000}

\* the model injects at most one failing probe body per run
Faulted == \E i \in 1..Len(test_results) : test_results[i].v.kind \in {"error", "false"}

\* sys.exit(0 if ready else 1)
ExitStatusAlwaysZero(ready) == 0
ExitStatus(ready) == IF ready THEN 0 ELSE 1

\* an exception nobody catches leaves main(); the interpreter exits with status 1
Uncaught(name) ==
    /\ exc' = name
    /\ pc' = "exit"
    /\ exit_code' = 1

\* a probe called from run_comprehensive_test stores value under key and returns
StoreAndReturn(name, value) ==
    /\ test_results' = DictSet(test_results, ResultKey(name), value)
    /\ call_log' = Append(call_log, name)
    /\ pc' = AfterProbe(name)
    /\ UNCHANGED <<session, args, exc, report, saved, exit_code, call, ret, cpu_readings, monitor_thread>>

\* a probe called from run_comprehensive_test returns without storing anything
ReturnWithoutStoring(name) ==
    /\ call_log' = Append(call_log, name)
    /\ pc' = AfterProbe(name)
    /\ UNCHANGED <<session, args, test_results, exc, report, saved, exit_code, call, ret, cpu_readings, monitor_thread>>

\* a probe lets an exception escape to run_comprehensive_test, which has no handler
Propagate(name) ==
    /\ call_log' = Append(call_log, name)
    /\ Uncaught(name)
    /\ UNCHANGED <<session, args, test_results, report, saved, call, ret, cpu_readings, monitor_thread>>

\* an "if <argument>:" of run_comprehensive_test whose argument is falsy
SkipProbe(name) ==
    /\ pc' = AfterProbe(name)
    /\ UNCHANGED <<session, args, test_results, call_log, exc, report, saved, exit_code, call, ret, cpu_readings, monitor_thread>>

\* a probe whose body is one try block: results on success, {'error': ...} otherwise
TryProbe(name) ==
    /\ pc = name
    /\ \E ok \in BOOLEAN :
          /\ ok \/ ~Faulted
          /\ StoreAndReturn(name, IF ok THEN PlainResult ELSE ErrorResult)

----------------------------------------------------------------------------
(* main(): argument handling and construction of the tester *)

Init ==
    /\ pc = "main"
    /\ session = "None"
    /\ args = NoArgs
    /\ test_results = <<>>
    /\ call_log = <<>>
    /\ exc = "none"
    /\ report = NoReport
    /\ saved = FALSE
    /\ exit_code = Running
    /\ cpu_readings = <<>>
    /\ monitor_thread = "none"
    /\ call = <<>>
    /\ ret = <<>>

\* main(), up to "Initialize tester": with --folder and no *.onnx file found it
\* returns False, which the caller turns into the exit status
main ==
    /\ pc = "main"
    /\ \E folder \in BOOLEAN, model_found \in BOOLEAN, a \in ArgSets :
          IF folder /\ ~model_found
          THEN /\ pc' = "exit"
               /\ exit_code' = ExitStatus(FALSE)
               /\ UNCHANGED <<session, args, test_results, call_log, exc, report, saved, call, ret, cpu_readings, monitor_thread>>
          ELSE /\ args' = a
               /\ pc' = "ONNXModelTester"
               /\ UNCHANGED <<session, test_results, call_log, exc, report, saved, exit_code, call, ret, cpu_readings, monitor_thread>>

ONNXModelTesterNoRaise ==
    /\ pc = "ONNXModelTester"
    /\ \E loaded \in BOOLEAN :
          /\ session' = IF loaded THEN "InferenceSession" ELSE "None"
          /\ test_results' = <<>>
          /\ pc' = ProbeSequence[1]
          /\ UNCHANGED <<args, call_log, exc, report, saved, exit_code, call, ret, cpu_readings, monitor_thread>>

\* ONNXModelTester.__init__: _load_model re-raises what onnx.load or
\* ort.InferenceSession raised; _load_configurations swallows its errors
ONNXModelTester ==
    /\ pc = "ONNXModelTester"
    /\ \E loaded \in BOOLEAN :
          IF loaded
          THEN /\ session' = "InferenceSession"
               /\ test_results' = <<>>
               /\ pc' = ProbeSequence[1]
               /\ UNCHANGED <<args, call_log, exc, report, saved, exit_code, call, ret, cpu_readings, monitor_thread>>
          ELSE /\ Uncaught("_load_model")
               /\ UNCHANGED <<session, args, test_results, call_log, report, saved, call, ret, cpu_readings, monitor_thread>>

----------------------------------------------------------------------------
(* The probes, each as called from run_comprehensive_test *)

\* both the normal path and the outer except store the results dict
test_structural_integrity ==
    /\ pc = "test_structural_integrity"
    /\ StoreAndReturn("test_structural_integrity", PlainResult)

test_io_information == TryProbe("test_io_information")

test_model_graph_architecture == TryProbe("test_model_graph_architecture")

test_model_parameters == TryProbe("test_model_parameters")

extract_model_metadata == TryProbe("extract_model_metadata")

test_model_loading ==
    /\ pc = "test_model_loading"
    /\ \E ok \in BOOLEAN :
          /\ ok \/ ~Faulted
          /\ StoreAndReturn("test_model_loading", IF ok THEN Val("true", 0, 1) ELSE Val("false", 0, 1))

test_inference_speed ==
    /\ pc = "test_inference_speed"
    /\ \/ \E ms \in Latencies :
             StoreAndReturn("test_inference_speed", Val("results", ms, 1000))
       \/ /\ ~Faulted
          /\ StoreAndReturn("test_inference_speed", ErrorResult)

\* reading the input metadata and building the base test data happen outside
\* any try block; only the per-variant inference is guarded
test_input_validation ==
    /\ pc = "test_input_validation"
    /\ \/ \E passed_tests \in 0..NumValidationTests :
             StoreAndReturn("test_input_validation", Val("results", passed_tests, NumValidationTests))
       \/ Propagate("test_input_validation")

test_inference_smoke_tests == TryProbe("test_inference_smoke_tests")

test_performance_profiling == TryProbe("test_performance_profiling")

test_compatibility == TryProbe("test_compatibility")

\* a CSV probe: file missing -> return {}; text first column -> data_type 'text';
\* numerical rows -> the rate good/rows; anything raised -> {'error': ...}
CsvProbe(name) ==
    \/ ReturnWithoutStoring(name)
    \/ StoreAndReturn(name, Val("text", 0, 1))
    \/ \E good \in 0..MaxRows :
          StoreAndReturn(name, Val("numerical", good, MaxRows))
    \/ /\ ~Faulted
       /\ StoreAndReturn(name, ErrorResult)

test_with_training_data ==
    /\ pc = "test_with_training_data"
    /\ IF args.training_data_path
       THEN CsvProbe("test_with_training_data")
       ELSE SkipProbe("test_with_training_data")

test_edge_cases ==
    /\ pc = "test_edge_cases"
    /\ IF args.edge_case_data_path
       THEN CsvProbe("test_edge_cases")
       ELSE SkipProbe("test_edge_cases")

\* the results dict is stored on both paths; the outer except adds an 'error' key
test_with_llm_router_api ==
    /\ pc = "test_with_llm_router_api"
    /\ IF args.api_endpoint
       THEN \E ok \in BOOLEAN :
               /\ ok \/ ~Faulted
               /\ StoreAndReturn("test_with_llm_router_api", IF ok THEN PlainResult ELSE ErrorResult)
       ELSE SkipProbe("test_with_llm_router_api")

\* _detect_model_classes runs before the try block; without an API key the
\* probe returns {'error': ...} to its caller and stores nothing
test_with_llm_generated_text ==
    /\ pc = "test_with_llm_generated_text"
    /\ IF args.use_llm_text
       THEN \/ Propagate("test_with_llm_generated_text")
            \/ ReturnWithoutStoring("test_with_llm_generated_text")
            \/ \E ok \in BOOLEAN :
                  /\ ok \/ ~Faulted
                  /\ StoreAndReturn("test_with_llm_generated_text", IF ok THEN PlainResult ELSE ErrorResult)
       ELSE SkipProbe("test_with_llm_generated_text")

----------------------------------------------------------------------------
(* Report, artifact and exit status *)

generate_deployment_report ==
    /\ pc = "generate_deployment_report"
    /\ report' = Report(test_results)
    /\ pc' = "save_report"
    /\ UNCHANGED <<session, args, test_results, call_log, exc, saved, exit_code, call, ret, cpu_readings, monitor_thread>>

\* open(output_path, 'w') may fail; nothing in main() catches that
save_report ==
    /\ pc = "save_report"
    /\ \/ /\ saved' = TRUE
          /\ pc' = "return"
          /\ UNCHANGED <<session, args, test_results, call_log, exc, report, exit_code, call, ret, cpu_readings, monitor_thread>>
       \/ /\ Uncaught("save_report")
          /\ UNCHANGED <<session, args, test_results, call_log, report, saved, call, ret, cpu_readings, monitor_thread>>

\* return report['is_ready'], then sys.exit(0 if ready else 1)
exit ==
    /\ pc = "return"
    /\ exit_code' = ExitStatus(report.is_ready)
    /\ pc' = "exit"
    /\ UNCHANGED <<session, args, test_results, call_log, exc, report, saved, call, ret, cpu_readings, monitor_thread>>

Next ==
    \/ main
    \/ ONNXModelTester
    \/ test_structural_integrity
    \/ test_io_information
    \/ test_model_graph_architecture
    \/ test_model_parameters
    \/ extract_model_metadata
    \/ test_model_loading
    \/ test_inference_speed
    \/ test_input_validation
    \/ test_inference_smoke_tests
    \/ test_performance_profiling
    \/ test_compatibility
    \/ test_with_training_data
    \/ test_edge_cases
    \/ test_with_llm_router_api
    \/ test_with_llm_generated_text
    \/ generate_deployment_report
    \/ save_report
    \/ exit

Spec == Init /\ [][Next]_vars

----------------------------------------------------------------------------
(* The scoring engine on its own: generate_deployment_report applied to    *)
(* every store the probes can leave behind, each scored key being absent   *)
(* or holding one of the values its probe writes.                          *)

LoadingValues == {Val("true", 0, 1), Val("false", 0, 1)}

ValidationValues == {Val("results", k, NumValidationTests) : k \in 0..NumValidationTests}

SpeedValues == {Val("results", ms, 1000) : ms \in Latencies} \cup {ErrorResult}

CsvValues(rows) ==
    {Val("text", 0, 1), ErrorResult} \cup {Val("numerical", good, rows) : good \in 0..rows}

Entry(key, value) == IF value = Absent THEN <<>> ELSE <<[k |-> key, v |-> value]>>

Stores ==
    { Entry("model_loading", l) \o Entry("inference_speed", s) \o
      Entry("input_validation", i) \o Entry("training_data_performance", t) \o
      Entry("edge_cases", e) :
        l \in LoadingValues \cup {Absent},
        s \in SpeedValues \cup {Absent},
        i \in ValidationValues \cup {Absent},
        t \in CsvValues(RateSteps \div 2) \cup {Absent},
        e \in CsvValues(RateSteps) \cup {Absent} }

InitScore ==
    /\ pc = "generate_deployment_report"
    /\ session = "InferenceSession"
    /\ args = NoArgs
    /\ test_results \in Stores
    /\ call_log = <<>>
    /\ exc = "none"
    /\ report = NoReport
    /\ saved = FALSE
    /\ exit_code = Running
    /\ cpu_readings = <<>>
    /\ monitor_thread = "none"
    /\ call = <<>>
    /\ ret = <<>>

NextScore == generate_deployment_report

SpecScore == InitScore /\ [][NextScore]_vars

----------------------------------------------------------------------------
(* A caller that keeps using one tester as a library: it runs probes and   *)
(* asks for reports in any order.  The dict generate_deployment_report     *)
(* returns holds self.test_results itself under 'test_results', not a copy *)
(* of it, so a later write of a probe to the store is seen through every   *)
(* report returned before.  Here pc names the method called last, report   *)
(* is the first report the caller got and ret the latest one after it.     *)

\* the probes the caller runs, and what each can store
CallerProbes == {"test_model_loading", "test_inference_speed"}

CallerValues(name) ==
    IF name = "test_model_loading" THEN LoadingValues ELSE SpeedValues

\* a report dict as it reads once the store it refers to holds dict
SeenThrough(r, dict) ==
    IF r.deployment_status = "NO REPORT" THEN r ELSE [r EXCEPT !.test_results = dict]

InitCaller ==
    /\ pc = "__init__"
    /\ session = "InferenceSession"
    /\ args = NoArgs
    /\ test_results = <<>>
    /\ call_log = <<>>
    /\ exc = "none"
    /\ report = NoReport
    /\ saved = FALSE
    /\ exit_code = Running
    /\ cpu_readings = <<>>
    /\ monitor_thread = "none"
    /\ call = <<>>
    /\ ret = <<>>

\* tester.<probe>(): self.test_results[key] = value
CallerRunsProbe ==
    \E name \in CallerProbes : \E value \in CallerValues(name) :
        /\ test_results' = DictSet(test_results, ResultKey(name), value)
        /\ report' = SeenThrough(report, test_results')
        /\ ret' = IF ret = <<>> THEN ret ELSE <<SeenThrough(ret[1], test_results')>>
        /\ pc' = name
        /\ UNCHANGED <<session, args, call_log, exc, saved, exit_code, call, cpu_readings, monitor_thread>>

\* report = tester.generate_deployment_report(), the first time
CallerGetsReport ==
    /\ report = NoReport
    /\ report' = Report(test_results)
    /\ pc' = "generate_deployment_report"
    /\ UNCHANGED <<session, args, test_results, call_log, exc, saved, exit_code, call, ret, cpu_readings, monitor_thread>>

\* tester.generate_deployment_report() again: a list kept on the tester and
\* appended to on every call
CallerGetsReportAgainKeepingIssues ==
    /\ report # NoReport
    /\ ret' = <<[Report(test_results) EXCEPT !.issues = report.issues \o @]>>
    /\ pc' = "generate_deployment_report"
    /\ UNCHANGED <<session, args, test_results, call_log, exc, report, saved, exit_code, call, cpu_readings, monitor_thread>>

\* tester.generate_deployment_report() again, the caller still holding the
\* first report
CallerGetsReportAgain ==
    /\ report # NoReport
    /\ ret' = <<Report(test_results)>>
    /\ pc' = "generate_deployment_report"
    /\ UNCHANGED <<session, args, test_results, call_log, exc, report, saved, exit_code, call, cpu_readings, monitor_thread>>

NextCaller ==
    \/ CallerRunsProbe
    \/ CallerGetsReport
    \/ CallerGetsReportAgain

SpecCaller == InitCaller /\ [][NextCaller]_vars

----------------------------------------------------------------------------
(* Test data synthesis: _create_test_data and the variants                 *)
(* test_input_validation builds from the shape it returns.  A tensor is    *)
(* kept as its shape and the set of values its elements can take.          *)

\* longest declared shape, largest batch size and largest small vocabulary
MaxRank == 3
MaxBatch == 2
MaxVocab == 3

\* a declared dimension: a name, None, or an integer
Dim(kind, n) == [kind |-> kind, n |-> n]
Dims == {Dim("str", 0), Dim("None", 0), Dim("int", -1), Dim("int", 7)}

\* isinstance(dim, str) or dim is None or dim == -1
IsSymbolic(dim) == dim.kind = "str" \/ dim.kind = "None" \/ dim.n = -1

\* 'int' in input_meta.type
IsIntType(type) == type \in {"tensor(int32)", "tensor(int64)"}

\* the loop body with 2792 for every symbolic feature dimension
ResolveDimWide(dim, processed_shape, type, batch_size) ==
    IF IsSymbolic(dim)
    THEN IF Len(processed_shape) = 0 THEN batch_size
         ELSE IF IsIntType(type) THEN 30
         ELSE 2792
    ELSE dim.n

\* the loop body: what is appended to processed_shape for dim
ResolveDim(dim, processed_shape, type, batch_size) ==
    IF IsSymbolic(dim)
    THEN IF Len(processed_shape) = 0 THEN batch_size
         ELSE IF IsIntType(type) THEN 30
         ELSE IF Len(processed_shape) = 1 THEN 2792 ELSE 10
    ELSE dim.n

RECURSIVE ProcessShape(_, _, _, _)
ProcessShape(shape, processed_shape, type, batch_size) ==
    IF shape = <<>> THEN processed_shape
    ELSE ProcessShape(Tail(shape),
                      Append(processed_shape,
                             ResolveDim(Head(shape), processed_shape, type, batch_size)),
                      type, batch_size)

Min(a, b) == IF a < b THEN a ELSE b
Max(a, b) == IF a > b THEN a ELSE b

\* vocab is len(self.vocab), 0 standing for None and for an empty vocabulary
MaxTokenId(vocab) ==
    LET vocab_size == IF vocab # 0 THEN vocab ELSE 1000
    IN  Max(1, Min(vocab_size - 1, 1000))

\* the values np.random.randint(0, max_token_id) or np.random.randn draws from
RandomValues(type, vocab) ==
    IF IsIntType(type) THEN 0..(MaxTokenId(vocab) - 1) ELSE {"randn"}

\* validation_tests: the name of each variant and the values of its elements
ValidationTests(type, vocab) ==
    LET max_token_id == MaxTokenId(vocab) IN
    IF IsIntType(type)
    THEN << <<"normal_tokens", RandomValues(type, vocab)>>,
            <<"zeros", {0}>>,
            <<"ones", {1}>>,
            <<"max_tokens", {max_token_id - 1}>>,
            <<"mid_range_tokens", {max_token_id \div 2}>>,
            <<"mixed_tokens", {0, 1, max_token_id \div 2, max_token_id - 1}>> >>
    ELSE << <<"normal_values", RandomValues(type, vocab)>>,
            <<"zeros", {"0.0"}>>,
            <<"ones", {"1.0"}>>,
            <<"large_values", {"1000.0"}>>,
            <<"small_values", {"1e-6"}>>,
            <<"negative_values", {"-10.0"}>> >>

Tensor(test, shape, values) == [test |-> test, shape |-> shape, values |-> values]

Shapes == UNION {[1..rank -> Dims] : rank \in 0..MaxRank}

InputMetas ==
    [type : {"tensor(int64)", "tensor(float)"}, shape : Shapes,
     batch_size : 1..MaxBatch, vocab : 0..MaxVocab \cup {1000, 1001, 1002}]

InitSynth ==
    /\ pc = "_create_test_data"
    /\ session = "InferenceSession"
    /\ args = NoArgs
    /\ test_results = <<>>
    /\ call_log = <<>>
    /\ exc = "none"
    /\ report = NoReport
    /\ saved = FALSE
    /\ exit_code = Running
    /\ cpu_readings = <<>>
    /\ monitor_thread = "none"
    /\ call \in {<<m>> : m \in InputMetas}
    /\ ret = <<>>

\* test_data, processed_shape = self._create_test_data(input_meta, batch_size)
create_test_data ==
    /\ pc = "_create_test_data"
    /\ LET m == call[1] IN
       ret' = <<Tensor("base", ProcessShape(m.shape, <<>>, m.type, m.batch_size),
                       RandomValues(m.type, m.vocab))>>
    /\ pc' = "validation_tests"
    /\ UNCHANGED <<session, args, test_results, call_log, exc, report, saved, exit_code, call, cpu_readings, monitor_thread>>

\* test_data = data_generator() for one of the six variants
data_generator ==
    /\ pc = "validation_tests"
    /\ \E i \in 1..NumValidationTests :
          LET t == ValidationTests(call[1].type, call[1].vocab)[i] IN
          ret' = <<Tensor(t[1], ret[1].shape, t[2])>>
    /\ pc' = "session.run"
    /\ UNCHANGED <<session, args, test_results, call_log, exc, report, saved, exit_code, call, cpu_readings, monitor_thread>>

NextSynth ==
    \/ create_test_data
    \/ data_generator

SpecSynth == InitSynth /\ [][NextSynth]_vars

----------------------------------------------------------------------------
(* The variant loop of test_input_validation: what each of the six runs    *)
(* does is drawn beforehand, and the loop turns it into the test details,  *)
(* the count of passed tests and the pass rate.                            *)

\* what self.session.run does on a variant: finite outputs, an output with
\* NaN, an output with Inf, or an exception
RunOutcomes == {"finite", "nan", "inf", "raise"}

\* the entry the loop appends to test_cases
TestCase(test, outcome) ==
    [test |-> test,
     status |-> IF outcome = "raise" THEN "failed" ELSE "passed",
     has_nan |-> outcome = "nan",
     has_inf |-> outcome = "inf"]

\* sum(1 for tc in test_cases if tc['status'] == 'passed')
PassedTests(test_cases) ==
    Cardinality({i \in 1..Len(test_cases) : test_cases[i].status = "passed"})

ValidationResults(type, outcomes) ==
    LET validation_tests == ValidationTests(type, 0)
        test_cases == [i \in 1..Len(validation_tests) |->
                          TestCase(validation_tests[i][1], outcomes[i])]
    IN  [total_tests |-> Len(test_cases),
         passed_tests |-> PassedTests(test_cases),
         pass_rate |-> Frac(PassedTests(test_cases), Len(test_cases)),
         test_details |-> test_cases]

InitValidation ==
    /\ pc = "validation_tests"
    /\ session = "InferenceSession"
    /\ args = NoArgs
    /\ test_results = <<>>
    /\ call_log = <<>>
    /\ exc = "none"
    /\ report = NoReport
    /\ saved = FALSE
    /\ exit_code = Running
    /\ cpu_readings = <<>>
    /\ monitor_thread = "none"
    /\ call \in {<<[type |-> type, outcomes |-> outcomes]>> :
                    type \in {"tensor(int64)", "tensor(float)"},
                    outcomes \in [1..NumValidationTests -> RunOutcomes]}
    /\ ret = <<>>

\* the loop over validation_tests, the summary, the store and the return
run_validation_tests ==
    /\ pc = "validation_tests"
    /\ LET results == ValidationResults(call[1].type, call[1].outcomes) IN
          /\ ret' = <<results>>
          /\ test_results' = DictSet(test_results, "input_validation",
                                     Val("results", results.passed_tests, results.total_tests))
    /\ pc' = "return"
    /\ UNCHANGED <<session, args, call_log, exc, report, saved, exit_code, call, cpu_readings, monitor_thread>>

NextValidation == run_validation_tests

SpecValidation == InitValidation /\ [][NextValidation]_vars

----------------------------------------------------------------------------
(* The numerical branch of test_with_training_data, and the label rule of  *)
(* the binary classifier's own single-inference test.  A row of the CSV is *)
(* its label y and the model's output out for its features, in tenths.     *)

Row(y, out) == [y |-> y, out |-> out]

\* model outputs of width 1 (one sigmoid score), 2 and 3
Outputs(width) ==
    CASE width = 1 -> {<<2>>, <<5>>, <<8>>}
      [] width = 2 -> {<<2, 8>>, <<8, 2>>, <<5, 5>>}
      [] width = 3 -> {<<8, 1, 1>>, <<1, 8, 1>>, <<1, 1, 8>>, <<4, 4, 2>>}

Labels(width) == IF width = 1 THEN {0, 1} ELSE 0..(width - 1)

Datasets ==
    UNION {[1..n -> {Row(y, out) : y \in Labels(width), out \in Outputs(width)}] :
              n \in 1..MaxRows, width \in 1..3}

\* np.argmax over one row: the first index of the largest entry, from 0
ArgMax(out) ==
    CHOOSE i \in 0..(Len(out) - 1) :
        /\ \A j \in 1..Len(out) : out[j] <= out[i + 1]
        /\ \A j \in 1..i : out[j] < out[i + 1]

\* (predictions > 0.5).astype(int) on one score
AsIntAboveHalf(tenths) == IF FracLT(Frac(1, 2), Frac(tenths, 10)) THEN 1 ELSE 0

\* len(np.unique(y_true)) == 2
IsBinary(rows) == Cardinality({rows[i].y : i \in 1..Len(rows)}) = 2

\* predictions.shape[-1] == 1
SingleOutput(rows) == Len(rows[1].out) = 1

\* y_pred, one label per row
YPred(rows) ==
    [i \in 1..Len(rows) |->
        IF IsBinary(rows) /\ SingleOutput(rows)
        THEN AsIntAboveHalf(rows[i].out[1])
        ELSE ArgMax(rows[i].out)]

\* y_pred has shape (N, 1) when it comes from the threshold on an (N, 1)
\* array of scores, and shape (N,) when it comes from argmax(axis=1)
IsColumn(rows) == IsBinary(rows) /\ SingleOutput(rows)

\* np.mean(y_true == y_pred): y_true has shape (N,); against a y_pred of
\* shape (N, 1) the comparison broadcasts to an N x N matrix
Accuracy(rows) ==
    LET y_pred == YPred(rows)
        N == Len(rows)
    IN  IF IsColumn(rows)
        THEN Frac(Cardinality({p \in (1..N) \X (1..N) : rows[p[2]].y = y_pred[p[1]]}), N * N)
        ELSE Frac(Cardinality({i \in 1..N : rows[i].y = y_pred[i]}), N)

\* "Positive" if prediction >= 0.5 else "Negative"
PredictedSentiment(tenths) ==
    IF FracGE(Frac(tenths, 10), Frac(1, 2)) THEN "Positive" ELSE "Negative"

InitAccuracy ==
    /\ pc = "test_with_training_data"
    /\ session = "InferenceSession"
    /\ args = NoArgs
    /\ test_results = <<>>
    /\ call_log = <<>>
    /\ exc = "none"
    /\ report = NoReport
    /\ saved = FALSE
    /\ exit_code = Running
    /\ cpu_readings = <<>>
    /\ monitor_thread = "none"
    /\ call \in {<<rows>> : rows \in Datasets}
    /\ ret = <<>>

\* predictions, y_pred, accuracy, the results dict and the store
numerical_data_processing ==
    /\ pc = "test_with_training_data"
    /\ LET rows == call[1]
           accuracy == Accuracy(rows)
       IN  /\ ret' = <<[y_pred |-> YPred(rows), accuracy |-> accuracy,
                        num_samples |-> Len(rows), is_binary |-> IsBinary(rows)]>>
           /\ test_results' = DictSet(test_results, "training_data_performance",
                                      Val("numerical", accuracy.n, accuracy.d))
    /\ pc' = "test_inference"
    /\ UNCHANGED <<session, args, call_log, exc, report, saved, exit_code, call, cpu_readings, monitor_thread>>

\* the binary classifier's test_inference on the features of one row
test_inference ==
    /\ pc = "test_inference"
    /\ SingleOutput(call[1])
    /\ \E i \in 1..Len(call[1]) :
          ret' = Append(ret, [row |-> i,
                              predicted_sentiment |-> PredictedSentiment(call[1][i].out[1])])
    /\ pc' = "return"
    /\ UNCHANGED <<session, args, test_results, call_log, exc, report, saved, exit_code, call, cpu_readings, monitor_thread>>

NextAccuracy ==
    \/ numerical_data_processing
    \/ test_inference

SpecAccuracy == InitAccuracy /\ [][NextAccuracy]_vars

----------------------------------------------------------------------------
(* test_performance_profiling followed by test_compatibility, with the     *)
(* measurements they depend on drawn beforehand: the average latency in    *)
(* ms (or a failing run), the size of the model file in MB, the opset      *)
(* version (0 for a model without opset_import) and whether the graph has  *)
(* Loop, If or Scan nodes.  ret collects what the two probes return.       *)

Measurements ==
    [avg_latency : {5, 10, 30, 50, 100, 200, 500},
     run_fails : BOOLEAN,
     model_size_mb : {1, 49, 50, 99, 100},
     opset_version : {0, 7, 8, 11, 13, 14},
     control_flow : BOOLEAN]

\* the performance categorization of test_performance_profiling
PerformanceCategory(avg_latency) ==
    IF avg_latency < 10 THEN "excellent"
    ELSE IF avg_latency < 50 THEN "good"
    ELSE IF avg_latency < 200 THEN "acceptable"
    ELSE "poor"

\* results.get(key) on a results dict kept as a record
Get(results, key) == IF key \in DOMAIN results THEN results[key] ELSE "None"

\* the results dict test_compatibility starts from
CompatibilityDefaults ==
    [onnx_opset |-> 0, onnxruntime_compatible |-> TRUE, cpu_compatible |-> TRUE,
     mobile_ready |-> FALSE, web_compatible |-> FALSE, optimization_suggestions |-> <<>>]

\* the results dict of test_compatibility when nothing raises
CompatibilityResults(m) ==
    LET results == CompatibilityDefaults
        mobile == /\ m.model_size_mb < 50
                  /\ Get(results, "performance_category") \in {"excellent", "good"}
        web == m.opset_version <= 13 /\ m.model_size_mb < 100
    IN  [results EXCEPT
            !.onnx_opset = m.opset_version,
            !.mobile_ready = mobile,
            !.web_compatible = web /\ ~m.control_flow,
            !.optimization_suggestions =
                (IF m.opset_version >= 11 THEN <<>>
                 ELSE IF m.opset_version >= 8 THEN <<"Consider updating to opset 11+">>
                 ELSE <<"Update to modern opset version">>)
                \o (IF ~mobile /\ m.model_size_mb >= 50
                    THEN <<"Consider model compression for mobile">> ELSE <<>>)
                \o (IF ~web /\ m.model_size_mb >= 100
                    THEN <<"Reduce model size for web deployment">> ELSE <<>>)
                \o (IF m.control_flow
                    THEN <<"Remove complex control flow for web compatibility">> ELSE <<>>)]

InitCompat ==
    /\ pc = "test_performance_profiling"
    /\ session = "InferenceSession"
    /\ args = NoArgs
    /\ test_results = <<>>
    /\ call_log = <<>>
    /\ exc = "none"
    /\ report = NoReport
    /\ saved = FALSE
    /\ exit_code = Running
    /\ cpu_readings = <<>>
    /\ monitor_thread = "none"
    /\ call \in {<<m>> : m \in Measurements}
    /\ ret = <<>>

\* test_performance_profiling: the measured latency, its category, the store
performance_profiling ==
    /\ pc = "test_performance_profiling"
    /\ LET m == call[1] IN
       IF m.run_fails
       THEN /\ ret' = <<[error |-> TRUE]>>
            /\ test_results' = DictSet(test_results, "performance_profiling", ErrorResult)
       ELSE /\ ret' = <<[latency_ms |-> m.avg_latency,
                         performance_category |-> PerformanceCategory(m.avg_latency)]>>
            /\ test_results' = DictSet(test_results, "performance_profiling",
                                       Val("results", m.avg_latency, 1))
    /\ pc' = "test_compatibility"
    /\ UNCHANGED <<session, args, call_log, exc, report, saved, exit_code, call, cpu_readings, monitor_thread>>

\* test_compatibility: without opset_import the name opset_version is unbound
\* at the web heuristics, which the except clause turns into an error result
compatibility ==
    /\ pc = "test_compatibility"
    /\ LET m == call[1] IN
       IF m.opset_version = 0
       THEN /\ ret' = Append(ret, [error |-> TRUE])
            /\ test_results' = DictSet(test_results, "compatibility", ErrorResult)
       ELSE /\ ret' = Append(ret, CompatibilityResults(m))
            /\ test_results' = DictSet(test_results, "compatibility", PlainResult)
    /\ pc' = "return"
    /\ UNCHANGED <<session, args, call_log, exc, report, saved, exit_code, call, cpu_readings, monitor_thread>>

NextCompat ==
    \/ performance_profiling
    \/ compatibility

SpecCompat == InitCompat /\ [][NextCompat]_vars

----------------------------------------------------------------------------
(* _detect_model_classes: the class schema inferred from the declared      *)
(* shape of the first output and from the words found in the model path.   *)
(* A model path is kept as the set of the words it contains.               *)

\* longest declared output shape
MaxOutRank == 2

OutputDims ==
    {Dim("str", 0), Dim("None", 0), Dim("int", -1),
     Dim("int", 1), Dim("int", 2), Dim("int", 3), Dim("int", 10)}

OutputShapes == UNION {[1..rank -> OutputDims] : rank \in 0..MaxOutRank}

PathWords == {"hate", "toxic", "sentiment", "feedback", "customer", "spam", "news", "emotion"}

\* word in model_path_lower
In(word, model_path) == word \in model_path

\* num_classes, a declared dimension taken over as it is, or the integer 1 or 2
NumClasses(shape) ==
    IF Len(shape) > 1 THEN shape[Len(shape)]
    ELSE IF Len(shape) = 1 /\ shape[1] = Dim("int", 1) THEN Dim("int", 2)
    ELSE Dim("int", 1)

\* range(num_classes) raises TypeError unless num_classes is an integer
IsInteger(num_classes) == num_classes.kind = "int"

\* a fixed label, and a label built from a prefix and the class index
Named(name) == <<name>>
Numbered(prefix, i) == <<prefix, i>>

HateMeanings(n) ==
    LET level(i) == Numbered("hate_level_", i) IN
    IF n = 2 THEN <<Named("normal_speech")>> @@ (0 :> Named("hate_speech"))
    ELSE [i \in 0..(n - 1) |-> level(i)]

SentimentMeanings(n) ==
    LET level(i) == Numbered("sentiment_level_", i) IN
    IF n = 2 THEN <<Named("positive_sentiment")>> @@ (0 :> Named("negative_sentiment"))
    ELSE IF n = 3
    THEN <<Named("neutral_sentiment"), Named("positive_sentiment")>>
         @@ (0 :> Named("negative_sentiment"))
    ELSE [i \in 0..(n - 1) |-> level(i)]

SpamMeanings(n) ==
    LET type(i) == Numbered("spam_type_", i) IN
    IF n = 2 THEN <<Named("legitimate")>> @@ (0 :> Named("spam"))
    ELSE [i \in 0..(n - 1) |-> type(i)]

NewsMeanings(n) ==
    LET news_categories == <<"politics", "sports", "technology", "business", "entertainment",
                             "health", "science", "world", "opinion", "local">>
        category(i) == IF i < Len(news_categories) THEN Named(news_categories[i + 1])
                       ELSE Numbered("news_category_", i)
    IN  [i \in 0..(n - 1) |-> category(i)]

EmotionMeanings(n) ==
    LET emotions == <<"anger", "fear", "joy", "love", "sadness", "surprise", "neutral">>
        emotion(i) == IF i < Len(emotions) THEN Named(emotions[i + 1])
                      ELSE Numbered("emotion_", i)
    IN  [i \in 0..(n - 1) |-> emotion(i)]

GenericMeanings(n) ==
    LET class(i) == Numbered("class_", i) IN [i \in 0..(n - 1) |-> class(i)]

\* the chain of matchers with spam tested before sentiment
ClassMeaningsSpamFirst(model_path, n) ==
    IF In("hate", model_path) \/ In("toxic", model_path) THEN HateMeanings(n)
    ELSE IF In("spam", model_path) THEN SpamMeanings(n)
    ELSE IF In("sentiment", model_path) \/ In("feedback", model_path) THEN SentimentMeanings(n)
    ELSE IF In("news", model_path) THEN NewsMeanings(n)
    ELSE IF In("emotion", model_path) THEN EmotionMeanings(n)
    ELSE GenericMeanings(n)

\* class_info['class_meanings'] for an integer num_classes
ClassMeanings(model_path, n) ==
    IF In("hate", model_path) \/ In("toxic", model_path) THEN HateMeanings(n)
    ELSE IF In("sentiment", model_path) \/ In("feedback", model_path) THEN SentimentMeanings(n)
    ELSE IF In("spam", model_path) THEN SpamMeanings(n)
    ELSE IF In("news", model_path) THEN NewsMeanings(n)
    ELSE IF In("emotion", model_path) THEN EmotionMeanings(n)
    ELSE GenericMeanings(n)

\* _detect_model_type
DetectModelType(model_path, shape) ==
    IF In("hate", model_path) \/ In("toxic", model_path) THEN "hate_speech"
    ELSE IF In("sentiment", model_path) \/ In("feedback", model_path)
            \/ In("customer", model_path) THEN "sentiment"
    ELSE IF In("spam", model_path) THEN "spam"
    ELSE IF In("emotion", model_path) THEN "emotion"
    ELSE IF In("intent", model_path) THEN "intent"
    ELSE IF In("topic", model_path) \/ In("category", model_path) THEN "topic_classification"
    ELSE IF Len(shape) > 1
    THEN IF shape[Len(shape)] = Dim("int", 2) THEN "sentiment"
         ELSE "multiclass_classification"
    ELSE IF Len(shape) = 1 /\ shape[1] = Dim("int", 1) THEN "sentiment"
    ELSE "general_text_classification"

\* what a call of _detect_model_classes ends in: a class_info dict, or the
\* TypeError of range(num_classes)
DetectModelClasses(model_path, shape) ==
    LET num_classes == NumClasses(shape) IN
    IF IsInteger(num_classes)
    THEN [raised |-> "none",
          num_classes |-> num_classes.n,
          is_binary |-> num_classes = Dim("int", 2),
          class_meanings |-> ClassMeanings(model_path, num_classes.n),
          model_type |-> DetectModelType(model_path, shape)]
    ELSE [raised |-> "TypeError",
          num_classes |-> 0,
          is_binary |-> FALSE,
          class_meanings |-> <<>>,
          model_type |-> DetectModelType(model_path, shape)]

InitSchema ==
    /\ pc = "_detect_model_classes"
    /\ session = "InferenceSession"
    /\ args = NoArgs
    /\ test_results = <<>>
    /\ call_log = <<>>
    /\ exc = "none"
    /\ report = NoReport
    /\ saved = FALSE
    /\ exit_code = Running
    /\ cpu_readings = <<>>
    /\ monitor_thread = "none"
    /\ call \in {<<[model_path |-> model_path, shape |-> shape]>> :
                    model_path \in SUBSET PathWords, shape \in OutputShapes}
    /\ ret = <<>>

detect_model_classes ==
    /\ pc = "_detect_model_classes"
    /\ LET class_info == DetectModelClasses(call[1].model_path, call[1].shape) IN
          /\ ret' = IF class_info.raised = "none" THEN <<class_info>> ELSE <<>>
          /\ exc' = IF class_info.raised = "none" THEN exc ELSE "_detect_model_classes"
    /\ pc' = "return"
    /\ UNCHANGED <<session, args, test_results, call_log, report, saved, exit_code, call, cpu_readings, monitor_thread>>

NextSchema == detect_model_classes

SpecSchema == InitSchema /\ [][NextSchema]_vars

----------------------------------------------------------------------------
(* The prompts of the LLM-text probe: test_with_llm_generated_text fixes   *)
(* num_samples, _generate_prompts_for_model_type asks for two prompts per  *)
(* class and cuts the list to num_samples.  num_samples 0 stands for None. *)

\* largest small sample count a caller asks for
MaxSamples == 4

RequestedSamples == 0..MaxSamples \cup {10, 20, 30}

\* _generate_prompts_for_class: base_prompts[i % len(base_prompts)] for
\* i in range(num_samples), each of the ten lists holding five prompts
PromptsForClass(class_id, class_meaning, num_samples) ==
    [i \in 1..num_samples |->
        [class_id |-> class_id, class_meaning |-> class_meaning, base |-> (i - 1) % 5]]

\* prompts.extend(...) for the classes class_id, class_id + 1, ... in turn
RECURSIVE ExtendPrompts(_, _, _)
ExtendPrompts(class_meanings, class_id, samples_per_class) ==
    IF class_id \notin DOMAIN class_meanings THEN <<>>
    ELSE PromptsForClass(class_id, class_meanings[class_id], samples_per_class)
         \o ExtendPrompts(class_meanings, class_id + 1, samples_per_class)

\* prompts[:num_samples]
Prefix(seq, n) == SubSeq(seq, 1, Min(n, Len(seq)))

\* _generate_prompts_for_model_type
GeneratePrompts(class_info, num_samples) ==
    Prefix(ExtendPrompts(class_info.class_meanings, 0, 2), num_samples)

\* num_samples as test_with_llm_generated_text fixes it
NumSamples(requested, class_info) ==
    IF requested = 0 THEN class_info.num_classes * 2 ELSE requested

InitPrompts ==
    /\ pc = "test_with_llm_generated_text"
    /\ session = "InferenceSession"
    /\ args = NoArgs
    /\ test_results = <<>>
    /\ call_log = <<>>
    /\ exc = "none"
    /\ report = NoReport
    /\ saved = FALSE
    /\ exit_code = Running
    /\ cpu_readings = <<>>
    /\ monitor_thread = "none"
    /\ call \in {<<[model_path |-> model_path,
                    shape |-> <<Dim("None", 0), Dim("int", d)>>,
                    num_samples |-> requested]>> :
                    model_path \in SUBSET PathWords, d \in {1, 2, 3, 10},
                    requested \in RequestedSamples}
    /\ ret = <<>>

\* the probe up to the start of its sample loop
generate_prompts ==
    /\ pc = "test_with_llm_generated_text"
    /\ LET class_info == DetectModelClasses(call[1].model_path, call[1].shape)
           num_samples == NumSamples(call[1].num_samples, class_info)
       IN  ret' = <<[num_classes |-> class_info.num_classes,
                     num_samples |-> num_samples,
                     prompts |-> GeneratePrompts(class_info, num_samples)]>>
    /\ pc' = "for prompt in prompts"
    /\ UNCHANGED <<session, args, test_results, call_log, exc, report, saved, exit_code, call, cpu_readings, monitor_thread>>

NextPrompts == generate_prompts

SpecPrompts == InitPrompts /\ [][NextPrompts]_vars

----------------------------------------------------------------------------
(* The sample loops of the batched probes: test_with_llm_router_api over   *)
(* range(num_samples), test_with_llm_generated_text over its prompts and   *)
(* test_edge_cases over the rows of the CSV file, one sample per step,     *)
(* followed by the summary each probe stores.                              *)

\* what can happen to one sample: a prediction, a response other than 200,
\* a requests exception such as a timeout, no generated text, or an
\* exception out of the conversion or the inference
SampleOutcomes(probe) ==
    CASE probe = "test_with_llm_router_api" -> {"ok", "http_error", "timeout", "inference_error"}
      [] probe = "test_with_llm_generated_text" -> {"ok", "no_text", "inference_error"}
      [] probe = "test_edge_cases" -> {"ok", "inference_error"}

\* the list of the results dict a sample ends up in
RecordedIn(probe, outcome) ==
    IF probe = "test_edge_cases"
    THEN (IF outcome = "ok" THEN "success" ELSE "failed")
    ELSE CASE outcome = "ok" -> "predictions"
           [] outcome = "http_error" -> "api_errors"
           [] outcome = "timeout" -> "api_errors"
           [] outcome = "no_text" -> "generation_errors"
           [] outcome = "inference_error" -> "model_errors"

\* the class schema of the model the LLM-text probe runs on
BatchClassInfo(c) == DetectModelClasses(c.model_path, c.shape)

\* results['total_samples']
TotalSamples(c) ==
    IF c.probe = "test_with_llm_generated_text"
    THEN NumSamples(c.num_samples, BatchClassInfo(c))
    ELSE c.num_samples

\* the number of iterations of the sample loop
Iterations(c) ==
    IF c.probe = "test_with_llm_generated_text"
    THEN Len(GeneratePrompts(BatchClassInfo(c), TotalSamples(c)))
    ELSE c.num_samples

BatchCalls ==
    {[probe |-> "test_with_llm_router_api", num_samples |-> n,
      model_path |-> {}, shape |-> <<Dim("None", 0), Dim("int", 2)>>] : n \in 1..MaxSamples}
    \cup
    {[probe |-> "test_with_llm_generated_text", num_samples |-> n,
      model_path |-> {}, shape |-> <<Dim("None", 0), Dim("int", d)>>] :
        n \in 0..MaxSamples, d \in {1, 2}}
    \cup
    {[probe |-> "test_edge_cases", num_samples |-> n,
      model_path |-> {}, shape |-> <<Dim("None", 0), Dim("int", 2)>>] : n \in 1..MaxRows}

InitBatch ==
    /\ pc = "for sample"
    /\ session = "InferenceSession"
    /\ args = NoArgs
    /\ test_results = <<>>
    /\ call_log = <<>>
    /\ exc = "none"
    /\ report = NoReport
    /\ saved = FALSE
    /\ exit_code = Running
    /\ cpu_readings = <<>>
    /\ monitor_thread = "none"
    /\ \E c \in BatchCalls :
          /\ call = <<c>>
          /\ ret = <<[total_samples |-> TotalSamples(c),
                      successful_predictions |-> 0,
                      failed_predictions |-> 0,
                      samples |-> <<>>,
                      success_rate |-> Frac(0, 1)]>>

\* one pass of the loop body that leaves the loop on the first failure
process_sample_break ==
    /\ pc = "for sample"
    /\ Len(ret[1].samples) < Iterations(call[1])
    /\ \E outcome \in SampleOutcomes(call[1].probe) :
          /\ ret' = <<[ret[1] EXCEPT
                !.samples = Append(@, [sample_id |-> Len(@), outcome |-> outcome,
                                       recorded |-> RecordedIn(call[1].probe, outcome)]),
                !.successful_predictions = IF outcome = "ok" THEN @ + 1 ELSE @,
                !.failed_predictions = IF outcome = "ok" THEN @ ELSE @ + 1]>>
          /\ pc' = IF outcome = "ok" THEN pc ELSE "summary"
    /\ UNCHANGED <<session, args, test_results, call_log, exc, report, saved, exit_code, call, cpu_readings, monitor_thread>>

\* one pass of the loop body: the sample is counted and recorded, whatever
\* happened to it, and the loop goes on
process_sample ==
    /\ pc = "for sample"
    /\ Len(ret[1].samples) < Iterations(call[1])
    /\ \E outcome \in SampleOutcomes(call[1].probe) :
          ret' = <<[ret[1] EXCEPT
                !.samples = Append(@, [sample_id |-> Len(@), outcome |-> outcome,
                                       recorded |-> RecordedIn(call[1].probe, outcome)]),
                !.successful_predictions = IF outcome = "ok" THEN @ + 1 ELSE @,
                !.failed_predictions = IF outcome = "ok" THEN @ ELSE @ + 1]>>
    /\ UNCHANGED <<pc, session, args, test_results, call_log, exc, report, saved, exit_code, call, cpu_readings, monitor_thread>>

\* the loop is exhausted
end_of_loop ==
    /\ pc = "for sample"
    /\ Len(ret[1].samples) = Iterations(call[1])
    /\ pc' = "summary"
    /\ UNCHANGED <<session, args, test_results, call_log, exc, report, saved, exit_code, call, ret, cpu_readings, monitor_thread>>

\* the success rate, the store and the return; the two API probes divide by
\* num_samples, test_edge_cases by len(edge_case_results)
summary ==
    /\ pc = "summary"
    /\ LET r == ret[1]
           divisor == IF call[1].probe = "test_edge_cases" THEN Len(r.samples)
                      ELSE r.total_samples
           results == [r EXCEPT !.success_rate = Frac(r.successful_predictions, divisor)]
       IN  /\ ret' = <<results>>
           /\ test_results' = DictSet(test_results, ResultKey(call[1].probe),
                                      IF call[1].probe = "test_edge_cases"
                                      THEN Val("numerical", r.successful_predictions, divisor)
                                      ELSE PlainResult)
    /\ pc' = "return"
    /\ UNCHANGED <<session, args, call_log, exc, report, saved, exit_code, call, cpu_readings, monitor_thread>>

NextBatch ==
    \/ process_sample
    \/ end_of_loop
    \/ summary

SpecBatch == InitBatch /\ [][NextBatch]_vars

-----------------------------------------------------------------------------
(* The background CPU sampler of the test scripts: test_inference starts   *)
(* it, runs the model, joins it with a timeout and then reads the list the *)
(* sampler thread appends to.                                              *)

MaxReadings == 3

\* what psutil.cpu_percent can return, in percent
CpuPercents == {0, 50, 100}

RECURSIVE MaxOf(_)
MaxOf(s) == IF Len(s) = 1 THEN s[1] ELSE Max(Head(s), MaxOf(Tail(s)))

\* np.mean(cpu_readings) if cpu_readings else 0
CpuAvg(readings) ==
    IF readings # <<>> THEN Frac(SumSeq(readings), Len(readings)) ELSE Frac(0, 1)

\* np.max(cpu_readings) if cpu_readings else 0
CpuMax(readings) == IF readings # <<>> THEN MaxOf(readings) ELSE 0

\* len(cpu_readings) if cpu_readings else 1
CpuSamples(readings) == IF readings # <<>> THEN Len(readings) ELSE 1

\* the foreground is past cpu_monitor.join(timeout=1.0): more than
\* duration_seconds=0.5 have passed since the sampler's start_time
PastJoin == pc \in {"calculate metrics", "print usage", "return"}

InitSampler ==
    /\ pc = "monitor_cpu_continuously"
    /\ session = "InferenceSession"
    /\ args = NoArgs
    /\ test_results = <<>>
    /\ call_log = <<>>
    /\ exc = "none"
    /\ report = NoReport
    /\ saved = FALSE
    /\ exit_code = Running
    /\ cpu_readings = <<>>
    /\ monitor_thread = "none"
    /\ call = <<>>
    /\ ret = <<>>

\* _monitor_cpu_continuously: a fresh list, a started daemon thread
monitor_cpu_continuously ==
    /\ pc = "monitor_cpu_continuously"
    /\ cpu_readings' = <<>>
    /\ monitor_thread' = "while"
    /\ pc' = "session.run"
    /\ UNCHANGED <<session, args, test_results, call_log, exc, report, saved, exit_code, call, ret>>

\* collect_cpu, the loop test: time.time() - start_time < duration_seconds
collect_cpu_while ==
    /\ monitor_thread = "while"
    /\ \/ /\ ~PastJoin
          /\ Len(cpu_readings) < MaxReadings
          /\ monitor_thread' = "cpu_percent"
       \/ monitor_thread' = "finished"
    /\ UNCHANGED <<pc, session, args, test_results, call_log, exc, report, saved, exit_code, call, ret, cpu_readings>>

\* collect_cpu, the loop body: cpu_readings.append(psutil.cpu_percent(...)),
\* time.sleep(0.01)
collect_cpu_append ==
    /\ monitor_thread = "cpu_percent"
    /\ \E percent \in CpuPercents : cpu_readings' = Append(cpu_readings, percent)
    /\ monitor_thread' = "while"
    /\ UNCHANGED <<pc, session, args, test_results, call_log, exc, report, saved, exit_code, call, ret>>

\* preprocessing, session.run, post-processing and time.sleep(0.1)
session_run ==
    /\ pc = "session.run"
    /\ pc' = "cpu_monitor.join"
    /\ UNCHANGED <<session, args, test_results, call_log, exc, report, saved, exit_code, call, ret, cpu_readings, monitor_thread>>

\* cpu_monitor.join(timeout=1.0) returns when the thread has ended or when
\* the timeout has passed; its return value is not looked at
cpu_monitor_join ==
    /\ pc = "cpu_monitor.join"
    /\ ret' = <<[joined |-> monitor_thread = "finished"]>>
    /\ pc' = "calculate metrics"
    /\ UNCHANGED <<session, args, test_results, call_log, exc, report, saved, exit_code, call, cpu_readings, monitor_thread>>

\* cpu_avg and cpu_max, from the list as it is now
calculate_metrics ==
    /\ pc = "calculate metrics"
    /\ ret' = <<[joined |-> ret[1].joined,
                 readings |-> cpu_readings,
                 cpu_avg |-> CpuAvg(cpu_readings),
                 cpu_max |-> CpuMax(cpu_readings)]>>
    /\ pc' = "print usage"
    /\ UNCHANGED <<session, args, test_results, call_log, exc, report, saved, exit_code, call, cpu_readings, monitor_thread>>

\* the RESOURCE USAGE lines: cpu_samples is read from the list again
print_usage ==
    /\ pc = "print usage"
    /\ call_log' = Append(call_log, [cpu_avg |-> ret[1].cpu_avg,
                                     cpu_max |-> ret[1].cpu_max,
                                     cpu_samples |-> CpuSamples(cpu_readings)])
    /\ pc' = "return"
    /\ UNCHANGED <<session, args, test_results, exc, report, saved, exit_code, call, ret, cpu_readings, monitor_thread>>

NextSampler ==
    \/ monitor_cpu_continuously
    \/ collect_cpu_while
    \/ collect_cpu_append
    \/ session_run
    \/ cpu_monitor_join
    \/ calculate_metrics
    \/ print_usage

SpecSampler == InitSampler /\ [][NextSampler]_vars

-----------------------------------------------------------------------------
(* The smoke tests followed by the report: test_inference_smoke_tests      *)
(* stores what its five tests found, generate_deployment_report scores     *)
(* the store.                                                              *)

\* the scored part of the store before the smoke tests run
SmokeStores ==
    { Entry("model_loading", l) \o Entry("inference_speed", s) \o
      Entry("input_validation", i) \o Entry("training_data_performance", t) \o
      Entry("edge_cases", e) :
        l \in LoadingValues,
        s \in {Val("results", 50, 1000), ErrorResult},
        i \in {Val("results", NumValidationTests, NumValidationTests), Absent},
        t \in {Val("numerical", MaxRows, MaxRows), Val("text", 0, 1), Absent},
        e \in {Val("numerical", MaxRows, MaxRows), Val("text", 0, 1), Absent} }

\* the keys of results['edge_cases'] as the dict is created
EdgeNames == {"zeros", "ones", "random", "large_values", "small_values"}

\* the inputs Test 5 runs, by the element kind of the model's input
EdgeTestData(kind) ==
    IF kind = "int"
    THEN {"zeros", "ones", "random", "max_tokens", "mid_tokens"}
    ELSE {"zeros", "ones", "random", "large_values", "small_values"}

\* what the session does during one run of the smoke tests: the outer try
\* block may fail before any test; otherwise Test 1 runs or raises, the
\* batch size and the range of its output are as expected or not, the two
\* runs of Test 4 agree, differ or raise, and at most one edge input fails
SmokeRuns ==
    [ outer : {"raises"}, kind : {"float"}, basic : {FALSE}, shape : {FALSE},
      range : {FALSE}, stability : {"raises"}, failing : {{}} ]
    \cup
    { r \in [ outer : {"ok"}, kind : {"int", "float"}, basic : BOOLEAN,
              shape : BOOLEAN, range : BOOLEAN,
              stability : {"deterministic", "non-deterministic", "raises"},
              failing : {{}} \cup {{n} : n \in {"zeros", "random", "max_tokens", "small_values"}} ] :
        /\ ~r.basic => ~r.shape /\ ~r.range
        /\ r.failing \subseteq EdgeTestData(r.kind) }

\* results['inference_issues'] after Test 4
StabilityIssues(stability) ==
    IF stability = "deterministic" THEN <<>>
    ELSE IF stability = "non-deterministic" THEN <<"Model outputs are non-deterministic">>
    ELSE <<"Stability test failed">>

\* the results dict test_inference_smoke_tests stores for one run
SmokeResults(r) ==
    IF r.outer = "raises" THEN ErrorResult
    ELSE [ kind |-> "results", n |-> 0, d |-> 1,
           basic_inference |-> r.basic,
           output_shape_correct |-> r.shape,
           output_range_valid |-> r.range,
           stability_test |-> (r.stability = "deterministic"),
           edge_cases |-> [name \in EdgeNames \cup EdgeTestData(r.kind) |->
                             name \in EdgeTestData(r.kind) \ r.failing],
           inference_issues |->
               (IF r.basic
                THEN (IF r.shape THEN <<>> ELSE <<"Output shape mismatch">>)
                ELSE <<"Basic inference failed">>)
               \o StabilityIssues(r.stability)
               \o (IF r.failing = {} THEN <<>> ELSE <<"Edge case failed">>) ]

InitSmoke ==
    /\ pc = "test_inference_smoke_tests"
    /\ session = "InferenceSession"
    /\ args = NoArgs
    /\ test_results \in SmokeStores
    /\ call_log = <<>>
    /\ exc = "none"
    /\ report = NoReport
    /\ saved = FALSE
    /\ exit_code = Running
    /\ cpu_readings = <<>>
    /\ monitor_thread = "none"
    /\ call = <<>>
    /\ ret = <<>>

\* test_inference_smoke_tests, called on a tester whose report is asked next
inference_smoke_tests ==
    /\ pc = "test_inference_smoke_tests"
    /\ \E r \in SmokeRuns :
          /\ call' = <<r>>
          /\ test_results' = DictSet(test_results, "inference_smoke_tests", SmokeResults(r))
          /\ ret' = <<IF r.outer = "raises" THEN Absent ELSE SmokeResults(r)>>
    /\ call_log' = Append(call_log, "test_inference_smoke_tests")
    /\ pc' = "generate_deployment_report"
    /\ UNCHANGED <<session, args, exc, report, saved, exit_code, cpu_readings, monitor_thread>>

NextSmoke ==
    \/ inference_smoke_tests
    \/ generate_deployment_report

SpecSmoke == InitSmoke /\ [][NextSmoke]_vars

-----------------------------------------------------------------------------
(* _convert_api_data_to_model_input: what the router-API probe feeds the   *)
(* model for one response.  A payload field is missing, a list, or a value *)
(* of another type; a tensor is kept as its dtype, its shape, the branch   *)
(* it came from and, for token input, its one row.                         *)

\* lengths of the lists a response carries, around the two target lengths
ListLengths == {0, 6, 7, 8, 30, 31}

Missing == [kind |-> "missing", list |-> <<>>]
NotAList == [kind |-> "other", list |-> <<>>]
ListOf(n) == [kind |-> "list", list |-> [i \in 1..n |-> i]]

\* response.json(): a dict with any of the four keys, or null; the list of a
\* text is the words of the string, one id each
ApiData ==
    [ json : {"dict"},
      model_input : {Missing, NotAList, ListOf(7)},
      tokens : {Missing, NotAList} \cup {ListOf(n) : n \in ListLengths},
      features : {Missing, NotAList, ListOf(7)},
      text : {Missing, NotAList, ListOf(3), ListOf(31)} ]
    \cup
    [ json : {"null"}, model_input : {Missing}, tokens : {Missing},
      features : {Missing}, text : {Missing} ]

ConvertMetas ==
    [ type : {"tensor(int64)", "tensor(float)"},
      shape : [1..1 -> {Dim("int", -1)}] \cup [1..2 -> Dims],
      batch_size : {1},
      vocab : {0, MaxVocab} ]

Array(dtype, shape, source, row) ==
    [returned |-> "ndarray", dtype |-> dtype, shape |-> shape, source |-> source, row |-> row]

\* a function that ends without a return statement
ReturnsNone ==
    [returned |-> "None", dtype |-> "NoneType", shape |-> <<>>, source |-> "none", row |-> <<>>]

\* the dtype the branches mean to produce for the model
DeclaredDtype(type) == IF IsIntType(type) THEN "int32" ELSE "float32"

\* test_data, _ = self._create_test_data(input_meta)
GeneratedData(m) ==
    Array(DeclaredDtype(m.type), ProcessShape(m.shape, <<>>, m.type, m.batch_size),
          "generated", <<>>)

\* tokens[:target_length], or tokens.extend([0] * (target_length - len(tokens)))
PadOrTruncate(tokens, target_length) ==
    [i \in 1..target_length |-> IF i <= Len(tokens) THEN tokens[i] ELSE 0]

\* target_length: 30, or shape[1] when the shape has one and it is not -1
TargetLength(shape) ==
    IF Len(shape) > 1 /\ ~(shape[2].kind = "int" /\ shape[2].n = -1)
    THEN shape[2] ELSE Dim("int", 30)

\* _tokenize_text with a vocabulary: one id per word, cut or padded to 30
TokenizeText(words) == PadOrTruncate(words, 30)

ConvertApiData(api_data, m) ==
    IF api_data.json = "null" THEN GeneratedData(m)
    ELSE IF api_data.model_input.kind # "missing"
    THEN IF api_data.model_input.kind = "list"
         THEN Array(DeclaredDtype(m.type), <<Len(api_data.model_input.list)>>,
                    "model_input", api_data.model_input.list)
         ELSE GeneratedData(m)
    ELSE IF api_data.tokens.kind # "missing" /\ IsIntType(m.type)
    THEN IF api_data.tokens.kind = "list"
         THEN LET target_length == TargetLength(m.shape) IN
              IF target_length.kind = "int"
              THEN Array("int32", <<1, target_length.n>>, "tokens",
                         PadOrTruncate(api_data.tokens.list, target_length.n))
              ELSE GeneratedData(m)
         ELSE ReturnsNone
    ELSE IF api_data.features.kind # "missing" /\ ~IsIntType(m.type)
    THEN IF api_data.features.kind = "list"
         THEN Array("float32", <<1, Len(api_data.features.list)>>, "features",
                    api_data.features.list)
         ELSE ReturnsNone
    ELSE IF api_data.text.kind # "missing" /\ m.vocab # 0
    THEN IF api_data.text.kind = "list"
         THEN Array("int32", <<1, 30>>, "text", TokenizeText(api_data.text.list))
         ELSE GeneratedData(m)
    ELSE GeneratedData(m)

InitConvert ==
    /\ pc = "_convert_api_data_to_model_input"
    /\ session = "InferenceSession"
    /\ args = NoArgs
    /\ test_results = <<>>
    /\ call_log = <<>>
    /\ exc = "none"
    /\ report = NoReport
    /\ saved = FALSE
    /\ exit_code = Running
    /\ cpu_readings = <<>>
    /\ monitor_thread = "none"
    /\ call \in {<<api_data, m>> : api_data \in ApiData, m \in ConvertMetas}
    /\ ret = <<>>

\* model_input = self._convert_api_data_to_model_input(api_data, input_meta)
convert_api_data_to_model_input ==
    /\ pc = "_convert_api_data_to_model_input"
    /\ ret' = <<ConvertApiData(call[1], call[2])>>
    /\ pc' = "session.run"
    /\ UNCHANGED <<session, args, test_results, call_log, exc, report, saved, exit_code, call, cpu_readings, monitor_thread>>

NextConvert == convert_api_data_to_model_input

SpecConvert == InitConvert /\ [][NextConvert]_vars

----------------------------------------------------------------------------
(* Claims about the scoring engine, checked under SpecScore *)

Reported == report.deployment_status # "NO REPORT"

\* C1: the verdict follows from the percentage alone: ready (is_ready and
\* 'READY FOR DEPLOYMENT') iff percentage >= 85, caution iff
\* 70 <= percentage < 85, not ready otherwise.
C1_VerdictFromPercentage ==
    Reported =>
        LET p == report.percentage IN
        /\ report.is_ready <=> p.n >= 85 * p.d
        /\ report.deployment_status = "READY FOR DEPLOYMENT" <=> p.n >= 85 * p.d
        /\ report.deployment_status = "DEPLOYMENT WITH CAUTION"
              <=> (p.n >= 70 * p.d /\ p.n < 85 * p.d)
        /\ report.deployment_status = "NOT READY FOR DEPLOYMENT" <=> p.n < 70 * p.d

C1_Witness ==
    /\ Reported
    /\ report.deployment_status = "DEPLOYMENT WITH CAUTION"
    /\ report.percentage.n >= 80 * report.percentage.d

\* C2: for every content of the store the percentage lies in [0, 100],
\* that is 0 <= score <= max_score.
C2_PercentageInRange ==
    Reported =>
        /\ 0 <= report.score
        /\ report.score <= report.max_score
        /\ report.percentage.n >= 0
        /\ report.percentage.n <= 100 * report.percentage.d

C2_Witness ==
    /\ Reported
    /\ report.score = report.max_score
    /\ report.percentage.n = 100 * report.percentage.d

\* the stores that differ from dict in one metric of one probe, the metric
\* being better: more passed variants, higher accuracy, higher success rate,
\* or a lower average inference time
Improvements(dict) ==
    UNION { { [dict EXCEPT ![i].v.n = m] :
                m \in IF dict[i].k = "inference_speed"
                      THEN {l \in Latencies : l < dict[i].v.n}
                      ELSE (dict[i].v.n + 1)..dict[i].v.d } :
            i \in {j \in 1..Len(dict) :
                     /\ dict[j].k \in {"input_validation", "inference_speed",
                                       "training_data_performance", "edge_cases"}
                     /\ dict[j].v.kind \in {"results", "numerical"}} }

\* C3: scoring is monotonic: improving one metric of one probe never lowers
\* the percentage.
C3_Monotonic ==
    Reported =>
        \A dict2 \in Improvements(test_results) :
            LET p == report.percentage
                q == Percentage(Score(dict2), MaxScore)
            IN q.n * p.d >= p.n * q.d

C3_Witness ==
    /\ Reported
    /\ \E dict2 \in Improvements(test_results) : Score(dict2) > report.score

----------------------------------------------------------------------------
(* Claims about main() and run_comprehensive_test, checked under Spec *)

\* the key each scoring rule reads, in rule order
RuleKeys ==
    << "model_loading", "input_validation", "inference_speed",
       "training_data_performance", "edge_cases" >>

\* C4: a scoring rule whose probe result is absent from the store or holds
\* only an error awards 0 points and adds a recommendation, and does not
\* report a critical issue.
C4_AbsentOrErroredRecommends ==
    Reported =>
        \A i \in 1..Len(RuleKeys) :
            DictGet(report.test_results, RuleKeys[i], Absent).kind \in {"absent", "error"}
                => LET award == Awards(report.test_results)[i] IN
                   /\ award.pts = 0
                   /\ award.recs # <<>>
                   /\ award.issues = <<>>

\* C5: no probe lets an exception escape to run_comprehensive_test, so the
\* run always gets as far as returning the store.
C5_FailureIsolation == exc \notin ProbeNames

\* C6: every probe run_comprehensive_test has called and that has returned
\* left an entry under its own key.
C6_EveryProbeLeavesEntry ==
    \A i \in 1..Len(call_log) :
        exc # call_log[i] => HasKey(test_results, ResultKey(call_log[i]))

\* the order the probes are claimed to run in
ClaimedOrder ==
    << "test_structural_integrity", "test_io_information",
       "test_model_graph_architecture", "test_model_parameters",
       "extract_model_metadata", "test_model_loading", "test_inference_speed",
       "test_input_validation", "test_inference_smoke_tests",
       "test_performance_profiling", "test_compatibility",
       "test_with_training_data", "test_edge_cases",
       "test_with_llm_router_api", "test_with_llm_generated_text" >>

Requested(a, name) ==
    CASE name = "test_with_training_data" -> a.training_data_path
      [] name = "test_edge_cases" -> a.edge_case_data_path
      [] name = "test_with_llm_router_api" -> a.api_endpoint
      [] name = "test_with_llm_generated_text" -> a.use_llm_text
      [] OTHER -> TRUE

ExpectedCalls(a) == SelectSeq(ClaimedOrder, LAMBDA name : Requested(a, name))

IsPrefix(s, t) == Len(s) <= Len(t) /\ \A i \in 1..Len(s) : s[i] = t[i]

\* C7: the probes are called one after another in the one fixed order, the
\* optional ones only when requested, whatever the earlier probes reported.
C7_FixedOrder ==
    /\ IsPrefix(call_log, ExpectedCalls(args))
    /\ pc \in {"generate_deployment_report", "save_report", "return"}
          => call_log = ExpectedCalls(args)

C7_Witness ==
    /\ pc = "generate_deployment_report"
    /\ Len(call_log) = Len(ClaimedOrder)
    /\ Faulted

\* the keys of the store are those of the probes called so far that stored
\* something, in call order
KeysInCallOrder ==
    Keys(test_results) =
        SelectSeq([i \in 1..Len(call_log) |-> ResultKey(call_log[i])],
                  LAMBDA key : HasKey(test_results, key))

\* C8: the store is append-only during a run: no step removes an entry or
\* replaces its value, and the keys appear in the order their probes ran.
C8_AppendOnly ==
    /\ [][IsPrefix(test_results, test_results')]_vars
    /\ []KeysInCallOrder

C8_Witness ==
    /\ pc = "exit"
    /\ saved
    /\ Len(test_results) = Len(ClaimedOrder)

\* C9: when the model cannot be loaded the run aborts: no probe is called,
\* no report is generated and no report artifact is written.
C9_FatalLoadAborts ==
    (session = "None" /\ pc \notin {"main", "ONNXModelTester"}) =>
        /\ pc = "exit"
        /\ call_log = <<>>
        /\ test_results = <<>>
        /\ ~Reported
        /\ ~saved

C9_Witness ==
    /\ exc = "_load_model"
    /\ pc = "exit"
    /\ exit_code = 1

\* C10: the process exits with 0 exactly when the run wrote a report whose
\* verdict is ready; every other way of ending exits with a non-zero status.
C10_ExitCode ==
    /\ pc # "exit" => exit_code = Running
    /\ pc = "exit" =>
          /\ exit_code \in {0, 1}
          /\ exit_code = 0 <=>
                (saved /\ report.deployment_status = "READY FOR DEPLOYMENT")

C10_Witness ==
    /\ pc = "exit"
    /\ exit_code = 0
    /\ report.score < report.max_score

----------------------------------------------------------------------------
(* Claims about reports a caller holds, checked under SpecCaller *)

\* C11: a report is immutable once returned: no later operation on the same
\* tester, a probe run again or another report, changes any of its fields,
\* the per-probe results it contains included.
C11_ReportImmutable == [][report # NoReport => report' = report]_vars

SameScoring(r1, r2) ==
    /\ r1.score = r2.score
    /\ r1.max_score = r2.max_score
    /\ r1.percentage = r2.percentage
    /\ r1.deployment_status = r2.deployment_status
    /\ r1.issues = r2.issues
    /\ r1.recommendations = r2.recommendations

----------------------------------------------------------------------------
(* Claims about test data synthesis, checked under SpecSynth *)

\* C13: walking the declared dimensions left to right, a symbolic first
\* dimension resolves to the batch size; a later symbolic dimension resolves
\* to 30 for an integer tensor and, for a floating tensor, to 2792 when it is
\* the second dimension and 10 when it is later; a concrete dimension is kept.
C13_ShapeResolution ==
    ret # <<>> =>
        LET m == call[1]
            out == ret[1].shape
        IN  /\ Len(out) = Len(m.shape)
            /\ \A i \in 1..Len(out) :
                  out[i] = IF ~IsSymbolic(m.shape[i]) THEN m.shape[i].n
                           ELSE IF i = 1 THEN m.batch_size
                           ELSE IF IsIntType(m.type) THEN 30
                           ELSE IF i = 2 THEN 2792
                           ELSE 10

C13_Witness ==
    /\ ret # <<>>
    /\ call[1].type = "tensor(float)"
    /\ call[1].batch_size = 2
    /\ Len(call[1].shape) = 3
    /\ \A i \in 1..3 : IsSymbolic(call[1].shape[i])
    /\ ret[1].shape = <<2, 2792, 10>>

\* the vocabulary size the claim speaks of: 1000 without a vocabulary
VocabularySize(vocab) == IF vocab = 0 THEN 1000 ELSE vocab

\* C14: for an integer input and every vocabulary size, every value of every
\* synthesized variant (random, zeros, ones, max tokens, mid-range, mixed)
\* lies in [0, vocabulary size).
C14_TokensInVocabulary ==
    ret # <<>> /\ IsIntType(call[1].type) =>
        \A v \in ret[1].values : 0 <= v /\ v < VocabularySize(call[1].vocab)

----------------------------------------------------------------------------
(* Claims about the input-validation probe, checked under SpecValidation *)

\* C15: a variant counts as passed iff its run raised no exception and no
\* output holds NaN or Inf; a variant with NaN or Inf in its output is
\* reported failed under its own name and is not counted in the pass rate.
C15_NaNIsFailure ==
    ret # <<>> =>
        LET outcomes == call[1].outcomes
            details == ret[1].test_details
            finite == {i \in 1..NumValidationTests : outcomes[i] = "finite"}
        IN  /\ \A i \in 1..NumValidationTests :
                  /\ details[i].test = ValidationTests(call[1].type, 0)[i][1]
                  /\ details[i].status = "passed" <=> i \in finite
            /\ ret[1].passed_tests = Cardinality(finite)
            /\ ret[1].pass_rate = Frac(Cardinality(finite), NumValidationTests)

----------------------------------------------------------------------------
(* Claims about accuracy on labelled data, checked under SpecAccuracy *)

\* C16: on numerical labelled data with N rows the reported accuracy is the
\* number of rows whose predicted label equals the label of that same row,
\* divided by N, for single-output and for multi-output models alike.
C16_AccuracyRowWise ==
    ret # <<>> =>
        LET rows == call[1]
            N == Len(rows)
            hits == Cardinality({i \in 1..N : ret[1].y_pred[i] = rows[i].y})
        IN  ret[1].accuracy.n * N = hits * ret[1].accuracy.d

\* C17: for a single sigmoid output the rule 'positive if score >= 0.5 else
\* negative' is applied alike by the single-inference test and the batch
\* accuracy probe: for every score, 0.5 included, both give the same label.
C17_SameThreshold ==
    Len(ret) = 2 =>
        LET i == ret[2].row IN
        (ret[2].predicted_sentiment = "Positive") <=> (ret[1].y_pred[i] = 1)

----------------------------------------------------------------------------
(* Claims about single rules of the rubric, checked under SpecScore *)

\* the points the report holds for the training-data rule
TrainingPoints ==
    report.score - (LoadingRule(test_results).pts + InputValidationRule(test_results).pts
                    + PerformanceRule(test_results).pts + EdgeCaseRule(test_results).pts)

\* C18: the training-data rule awards 20 points for an accuracy of at least
\* 0.9, 15 for at least 0.8, 10 for at least 0.7 and 0 otherwise; for a
\* training source detected as text it awards a fixed 10 points and the
\* recommendation to supply preprocessed numerical features.
C18_AccuracyTiers ==
    Reported =>
        LET train_perf == DictGet(test_results, "training_data_performance", Absent)
            accuracy == IF train_perf.kind = "numerical"
                        THEN Frac(train_perf.n, train_perf.d) ELSE Frac(0, 1)
        IN  IF train_perf.kind = "text"
            THEN /\ TrainingPoints = 10
                 /\ \E i \in 1..Len(report.recommendations) :
                       report.recommendations[i] =
                           "Provide preprocessed numerical features for full performance validation"
            ELSE TrainingPoints =
                    IF 10 * accuracy.n >= 9 * accuracy.d THEN 20
                    ELSE IF 10 * accuracy.n >= 8 * accuracy.d THEN 15
                    ELSE IF 10 * accuracy.n >= 7 * accuracy.d THEN 10
                    ELSE 0

C18_Witness ==
    /\ Reported
    /\ DictGet(test_results, "training_data_performance", Absent) = Val("numerical", 9, 10)
    /\ TrainingPoints = 20

\* C19: the percentage is the sum of the points awarded over the sum of the
\* maximum points of the five rules (20, 15, 15, 20, 15), times 100; the
\* report's max_score is that sum, and full points on all five rules give 100.
C19_PercentageOfRuleTotal ==
    Reported =>
        LET awards == Awards(test_results)
            awarded == awards[1].pts + awards[2].pts + awards[3].pts
                       + awards[4].pts + awards[5].pts
            total == 20 + 15 + 15 + 20 + 15
        IN  /\ report.max_score = total
            /\ report.score = awarded
            /\ report.percentage.d > 0
            /\ report.percentage.n * total = awarded * 100 * report.percentage.d
            /\ awarded = total => report.percentage.n = 100 * report.percentage.d

C19_Witness ==
    /\ Reported
    /\ \A i \in 1..5 : Awards(test_results)[i].pts = <<20, 15, 15, 20, 15>>[i]
    /\ report.percentage = Frac(8500, 85)

----------------------------------------------------------------------------
(* Claims about the compatibility probe, checked under SpecCompat *)

\* C20: once the performance probe has classified the model as excellent or
\* good, test_compatibility reports mobile_ready = true for a model file
\* under 50 MB; it reports false when the file has 50 MB or more or the
\* class is acceptable or poor.
C20_MobileReady ==
    /\ Len(ret) = 2
    /\ "performance_category" \in DOMAIN ret[1]
    /\ "mobile_ready" \in DOMAIN ret[2]
    => (ret[2].mobile_ready <=>
            /\ ret[1].performance_category \in {"excellent", "good"}
            /\ call[1].model_size_mb < 50)

----------------------------------------------------------------------------
(* Claims about schema inference, checked under SpecSchema *)

\* the trailing dimension of the declared output shape, when it is a
\* positive integer, else 0
Trailing ==
    LET shape == call[1].shape IN
    IF Len(shape) > 0 /\ shape[Len(shape)].kind = "int" /\ shape[Len(shape)].n > 0
    THEN shape[Len(shape)].n ELSE 0

\* C21: num_classes is derived from the trailing dimension d of the output
\* shape for every rank: d > 1 gives d classes, d = 1 gives 2 classes, so an
\* output of shape [batch, 1] is inferred as a binary schema.
C21_ClassesFromTrailingDim ==
    pc = "return" /\ Trailing > 0 =>
        /\ ret # <<>>
        /\ ret[1].num_classes = IF Trailing = 1 THEN 2 ELSE Trailing

\* C22: every schema _detect_model_classes returns, whatever the declared
\* output shape, has an integer num_classes >= 1, and is_binary holds iff
\* num_classes = 2.
C22_SchemaInvariant ==
    ret # <<>> =>
        /\ ret[1].num_classes \in Nat
        /\ ret[1].num_classes >= 1
        /\ ret[1].is_binary <=> ret[1].num_classes = 2

\* the matcher a label comes from
Family(label) ==
    CASE label[1] \in {"hate_speech", "normal_speech", "hate_level_"} -> "hate"
      [] label[1] \in {"negative_sentiment", "neutral_sentiment", "positive_sentiment",
                       "sentiment_level_"} -> "sentiment"
      [] label[1] \in {"spam", "legitimate", "spam_type_"} -> "spam"
      [] label[1] \in {"politics", "sports", "technology", "business", "entertainment",
                       "health", "science", "world", "opinion", "local",
                       "news_category_"} -> "news"
      [] label[1] \in {"anger", "fear", "joy", "love", "sadness", "surprise", "neutral",
                       "emotion_"} -> "emotion"
      [] OTHER -> "generic"

\* the first matcher, in the claimed order, that the model path satisfies
FirstMatch(model_path) ==
    IF model_path \cap {"hate", "toxic"} # {} THEN "hate"
    ELSE IF model_path \cap {"sentiment", "feedback"} # {} THEN "sentiment"
    ELSE IF "spam" \in model_path THEN "spam"
    ELSE IF "news" \in model_path THEN "news"
    ELSE IF "emotion" \in model_path THEN "emotion"
    ELSE "generic"

\* C24: the class labels come from the first matching matcher over the model
\* path (hate/toxic, sentiment/feedback, spam, news, emotion), else they are
\* class_<i>; the mapping has one entry for each of the keys
\* 0 .. num_classes - 1 and no other.
C24_LabelsByFirstMatch ==
    ret # <<>> =>
        LET class_meanings == ret[1].class_meanings IN
        /\ DOMAIN class_meanings = 0..(ret[1].num_classes - 1)
        /\ \A i \in DOMAIN class_meanings :
              /\ Family(class_meanings[i]) = FirstMatch(call[1].model_path)
              /\ FirstMatch(call[1].model_path) = "generic" =>
                    class_meanings[i] = <<"class_", i>>

C24_Witness ==
    /\ ret # <<>>
    /\ {"spam", "feedback", "news"} \subseteq call[1].model_path
    /\ "hate" \notin call[1].model_path /\ "toxic" \notin call[1].model_path
    /\ ret[1].num_classes = 3
    /\ ret[1].class_meanings[1] = <<"neutral_sentiment">>

----------------------------------------------------------------------------
(* Claims about prompt generation, checked under SpecPrompts *)

\* C23: for a schema of 2, 3 or 10 classes the prompt list has exactly two
\* prompts per class, 2 x num_classes in all, whatever sample count the
\* probe was asked for.
C23_BalancedPrompts ==
    ret # <<>> /\ ret[1].num_classes \in {2, 3, 10} =>
        LET prompts == ret[1].prompts IN
        /\ Len(prompts) = 2 * ret[1].num_classes
        /\ \A c \in 0..(ret[1].num_classes - 1) :
              Cardinality({i \in 1..Len(prompts) : prompts[i].class_id = c}) = 2

----------------------------------------------------------------------------
(* Claims about the batched probes, checked under SpecBatch *)

\* C25: in the batched probes a timeout, a response other than 200, a failed
\* generation or an inference error on one sample is recorded for that sample
\* only; the probe goes on to every remaining sample and ends by storing its
\* result, no exception leaving it.
C25_PerSampleIsolation ==
    /\ [](/\ exc = "none"
          /\ \A i \in 1..Len(ret[1].samples) :
                /\ ret[1].samples[i].sample_id = i - 1
                /\ ret[1].samples[i].recorded \in {"predictions", "success"}
                      <=> ret[1].samples[i].outcome = "ok"
          /\ pc # "for sample" => Len(ret[1].samples) = Iterations(call[1])
          /\ pc = "return" => HasKey(test_results, ResultKey(call[1].probe)))
    /\ [][IsPrefix(ret[1].samples, ret'[1].samples)]_vars

C25_Witness ==
    /\ pc = "return"
    /\ call[1].probe = "test_with_llm_router_api"
    /\ Len(ret[1].samples) = 3
    /\ ret[1].samples[1].outcome = "timeout"
    /\ ret[1].samples[2].outcome = "http_error"
    /\ ret[1].samples[3].outcome = "ok"

\* C29: when the router-API probe or the LLM-text probe has finished its
\* loop, every requested sample was counted once:
\* successful_predictions + failed_predictions = total_samples and
\* success_rate = successful_predictions / total_samples.
C29_EverySampleCounted ==
    pc = "return" /\ call[1].probe # "test_edge_cases" =>
        /\ ret[1].successful_predictions + ret[1].failed_predictions = ret[1].total_samples
        /\ ret[1].success_rate.d > 0
        /\ ret[1].success_rate.n * ret[1].total_samples
              = ret[1].successful_predictions * ret[1].success_rate.d

-----------------------------------------------------------------------------
(* Claims about the CPU sampler, checked under SpecSampler *)

MissedJoin == pc \in {"print usage", "return"} /\ ~ret[1].joined

\* C26: when the join of the CPU sampler times out while the sampler is
\* still running, the probe does not fail, the readings it consumes are
\* empty, CPU usage is reported as 0, and the sampler adds nothing to the
\* consumed list afterwards.
C26_MissedJoinYieldsEmpty ==
    MissedJoin =>
        /\ exc = "none"
        /\ ret[1].readings = <<>>
        /\ ret[1].cpu_avg = Frac(0, 1)
        /\ ret[1].cpu_max = 0
        /\ cpu_readings = ret[1].readings

-----------------------------------------------------------------------------
(* Claims about the smoke tests and the report, checked under SpecSmoke *)

SmokeStored == DictGet(test_results, "inference_smoke_tests", Absent)

\* the store with the outcome of the stability test the other way round
OtherStability(dict) ==
    LET smoke == DictGet(dict, "inference_smoke_tests", Absent) IN
    DictSet(dict, "inference_smoke_tests",
            [smoke EXCEPT !.stability_test = ~@,
                          !.inference_issues =
                              IF smoke.stability_test
                              THEN Append(@, "Model outputs are non-deterministic")
                              ELSE SelectSeq(@, LAMBDA issue :
                                      issue \notin {"Model outputs are non-deterministic",
                                                    "Stability test failed"})])

\* C27: a failed stability test alone does not change the report: the store
\* and the store that differs from it only in the stability result get the
\* same score, percentage and verdict, and the stored result of the smoke
\* tests shows the failure (stability_test false and an entry in
\* inference_issues).
C27_StabilityNotScored ==
    (pc = "save_report" /\ SmokeStored.kind = "results") =>
        LET other == Report(OtherStability(test_results)) IN
        /\ other.score = report.score
        /\ other.max_score = report.max_score
        /\ other.percentage = report.percentage
        /\ other.deployment_status = report.deployment_status
        /\ other.is_ready = report.is_ready
        /\ call[1].stability # "deterministic" =>
              /\ ~SmokeStored.stability_test
              /\ \E i \in 1..Len(SmokeStored.inference_issues) :
                    SmokeStored.inference_issues[i] = StabilityIssues(call[1].stability)[1]

\* a store that is ready although its stability test failed
C27_Witness ==
    /\ pc = "save_report"
    /\ SmokeStored.kind = "results"
    /\ ~SmokeStored.stability_test
    /\ report.is_ready
    /\ report.deployment_status = "READY FOR DEPLOYMENT"

-----------------------------------------------------------------------------
(* Claims about runs without labelled data, checked under Spec *)

NoDataResults ==
    /\ Reported
    /\ ~HasKey(test_results, "training_data_performance")
    /\ ~HasKey(test_results, "edge_cases")

\* C28: a run in which neither the labelled-data probe nor the edge-case
\* probe stored a result scores at most 50 of 85 points, so its verdict is
\* not ready and the exit status is 1, whatever the other probes stored.
C28_NoDataNotReady ==
    NoDataResults =>
        /\ report.score <= 50
        /\ report.max_score = 85
        /\ report.deployment_status = "NOT READY FOR DEPLOYMENT"
        /\ ~report.is_ready
        /\ pc = "exit" => exit_code = 1

\* such a run with the full 50 points, ended
C28_Witness ==
    /\ NoDataResults
    /\ report.score = 50
    /\ pc = "exit"
    /\ exc = "none"

-----------------------------------------------------------------------------
(* Claims about the conversion of a router response, checked under SpecConvert *)

Converted == pc = "session.run" /\ ret # <<>>

\* C30: for every router response the conversion raises nothing and returns
\* a tensor of the element kind the model declares; a token list comes back
\* cut or padded with zeros to exactly the target length.
C30_AlwaysATensorOfDeclaredKind ==
    Converted =>
        /\ exc = "none"
        /\ ret[1].returned = "ndarray"
        /\ ret[1].dtype = DeclaredDtype(call[2].type)
        /\ ret[1].source = "tokens" =>
              LET tokens == call[1].tokens.list
                  target == TargetLength(call[2].shape).n
              IN  /\ Len(ret[1].row) = target
                  /\ \A i \in 1..target :
                        ret[1].row[i] = IF i <= Len(tokens) THEN tokens[i] ELSE 0

====
